---- MODULE Spec2Model ----
(***************************************************************************)
(* Model of the authenticated request layer of twitcheroo.                 *)
(*                                                                         *)
(* Spec follows the retry loop of Twitch.twitch_request (src/client.py     *)
(* lines 146-198): one client with a fixed max_retries makes one call;     *)
(* every loop iteration sends one request through the session and acts on  *)
(* its outcome (an exception raised by the session, or a response with a   *)
(* status code and a JSON body).  SpecGate follows the assert and the      *)
(* credential checks at the head of the call (lines 84-125) for every      *)
(* credential class and every combination of the requirement flags,        *)
(* SpecUrl the url built from the query parameters (lines 127-144),        *)
(* SpecError the loop on responses with any kind of body, and              *)
(* SpecToken the operations of the token manager ClientCredentials         *)
(* (src/oauth.py) on one manager object against the clock, SpecCache the   *)
(* same manager against its cache file and the token endpoint, and         *)
(* SpecScope the scope check that the endpoint methods of Twitch run       *)
(* before they call twitch_request.                                        *)
(*                                                                         *)
(* Time is counted in ticks.  delay_seconds is always a power 1.2^e of     *)
(* the initial delay (delay_seconds **= 2 doubles e), so the model keeps   *)
(* the exponent e and converts to ticks only when a delay is slept.        *)
(* One second is 1000 * 5^MaxExactExp ticks, which makes (6/5)^e and a     *)
(* jitter of j/1000 seconds whole numbers of ticks for e <= MaxExactExp.   *)
(***************************************************************************)
EXTENDS Integers, Sequences, FiniteSets, TLC

VARIABLES
    max_retries,    \* self.max_retries of the client
    pc,             \* position of the call: idle, attempt, returned, raised
    retries,        \* local variable retries
    delay_exp,      \* local variable delay_seconds, as the e of 1.2^e
    response,       \* local variable response: the last response received
    result,         \* value returned by the call
    error,          \* exception raised out of the call
    trace,          \* history: the requests sent and the delays slept, in order
    auth,           \* self.auth of the client: the class of the credential object
    flags,          \* the four *_required arguments of the call
    query_parameters,   \* the **query_parameters of the call, in the caller's order
    url,            \* local variable url: the endpoint and the pairs added to it
    access_token,   \* self.access_token of the token manager
    cache,          \* the file .client_credentials.pickle
    next_validate_token_time,   \* self.next_validate_token_time, in seconds
    now,            \* time.time(), in seconds
    op,             \* the last operation called on the token manager and how it ended
    session_token,  \* the token carried by self.session of the token manager
    token_endpoint, \* the remote token endpoint: up, unreachable or rejecting
    twitch_scope,   \* self.twitch_scope of the client: the scopes granted
    method          \* the endpoint method of the client that was called

\* the client and the arguments of the call, and what the loop leaves alone
call_vars == <<auth, flags, query_parameters, url, twitch_scope, method>>

\* the token manager, its file and the clock
token_vars ==
    <<access_token, cache, next_validate_token_time, now, op, session_token,
      token_endpoint>>

vars == <<max_retries, pc, retries, delay_exp, response, result, error, trace,
          auth, flags, query_parameters, url,
          access_token, cache, next_validate_token_time, now, op,
          session_token, token_endpoint, twitch_scope, method>>

---------------------------------------------------------------------------
(* Bounds of the model *)

\* largest max_retries a client is built with
MaxRetries == 3

\* a call is followed for at most this many requests
MaxRequests == 5

\* max_retries = int(max_retries): any integer, negative ones included
MaxRetriesValues == -1 .. MaxRetries

\* values of random.randrange(0, 1000) the model draws
JitterSamples == {0, 999}

\* longest list passed as the value of a query parameter
MaxListLen == 2

\* the token manager is followed until the clock shows MaxNow, and for at
\* most MaxTokenEvents calls and validation requests
MaxNow == 5404
MaxTokenEvents == 2

\* decoded JSON bodies, response.json(); an error body carries the "status"
\* key that HTTPStatusError.__str__ reads and the "message" key, as the bodies
\* of the remote API do
Payloads == {"j1", "j2"}

---------------------------------------------------------------------------
(* Program constants *)

\* delay_seconds = 1.2 = BaseNum / BaseDen
BaseNum == 6
BaseDen == 5

\* random.randrange(0, 1000) / 1000
JitterSteps == 1000

\* largest exponent e for which 1.2^e is a whole number of ticks
MaxExactExp == 2 ^ 3

TicksPerSecond == JitterSteps * (BaseDen ^ MaxExactExp)

\* 1.2^e seconds in ticks, e <= MaxExactExp
PowerTicks(e) == (BaseNum ^ e) * (BaseDen ^ (MaxExactExp - e)) * JitterSteps

\* j / 1000 seconds in ticks
JitterTicks(j) == j * (BaseDen ^ MaxExactExp)

---------------------------------------------------------------------------
(* Outcomes of session.request *)

\* exceptions of the session that the except clause names
TransportExceptions == {"ConnectionError", "ReadTimeout"}

\* an exception of the session that the except clause does not name
OtherExceptions == {"TooManyRedirects"}

\* the statuses the code names, and 404 for every status it does not name
StatusCodes == {200, 204, 400, 401, 403, 404, 429, 500}

NoJson == "none"
NoException == "none"

ExceptionOutcomes ==
    [exc : TransportExceptions \cup OtherExceptions, status : {0}, json : {NoJson}]

ResponseOutcomes ==
    [exc : {NoException}, status : StatusCodes, json : Payloads]

\* bodies other than those of Payloads: a JSON object without the "message"
\* key, a JSON object without the "status" key, and a body that is not JSON
\* (an empty body, for one)
NoMessageBody == "no message"
NoStatusBody == "no status"
UndecodableBody == "not json"
Bodies == Payloads \cup {NoMessageBody, NoStatusBody, UndecodableBody}

\* responses with any of the bodies
AnyBodyOutcomes ==
    [exc : {NoException}, status : StatusCodes, json : Bodies]

\* response.json() returns for body b; it raises JSONDecodeError otherwise
JsonDecodes(b) == b # UndecodableBody

\* "status" in error_msg, "message" in error_msg for a decoded body
HasStatusKey(b) == b \notin {NoStatusBody, UndecodableBody}
HasMessageKey(b) == b \notin {NoMessageBody, UndecodableBody}

NoResponse == [status_code |-> 0, json |-> NoJson]
NoResult == [tag |-> "none", code |-> 0, json |-> NoJson]
NoError == [type |-> "none", json |-> NoJson]

\* events of the history
RequestEvent(o) == [ev |-> "request", exc |-> o.exc, status |-> o.status, ticks |-> 0]
SleepEvent(t) == [ev |-> "sleep", exc |-> NoException, status |-> 0, ticks |-> t]

\* the session entered (with self.twitch_session as session) and left
\* (Session.__exit__ calls close())
OpenEvent == [ev |-> "open", exc |-> NoException, status |-> 0, ticks |-> 0]
CloseEvent == [ev |-> "close", exc |-> NoException, status |-> 0, ticks |-> 0]

\* the with statement leaving the session open
AttemptEvents_NoClose(o) == <<OpenEvent, RequestEvent(o)>>

\* with self.twitch_session as session: response = session.request(...)
\* the session is left, and closed, whether the request returns or raises,
\* before the status test and the except and else clauses run
AttemptEvents(o) == <<OpenEvent, RequestEvent(o), CloseEvent>>

IsRequest(e) == e.ev = "request"
IsSleep(e) == e.ev = "sleep"

Requests == SelectSeq(trace, IsRequest)
Sleeps == SelectSeq(trace, IsSleep)

---------------------------------------------------------------------------
(* Twitch._apply_exponential_backoff and the helpers of the retry loop *)

\* backoff += random_milliseconds; time.sleep(backoff): the time slept, in
\* ticks, for delay_seconds = 1.2^backoff_exp and randrange() = j
ApplyExponentialBackoff(backoff_exp, j) == PowerTicks(backoff_exp) + JitterTicks(j)

\* the delay left as it is after a retry
SquareDelay_Missing(e) == e

\* delay_seconds **= 2, on the exponent: (1.2^e)^2 = 1.2^(2e)
SquareDelay(e) == 2 * e

\* the loop test written as retries > 0
LoopCondition_Strict(r) == r > 0

\* while retries >= 0
LoopCondition(r) == r >= 0

\* the retry test written as retries > 1
CanRetry_OffByOne(r) == r > 1

\* if retries != 0
CanRetry(r) == r # 0

\* the decrement left out
DecrementRetries_Missing(r) == r

\* retries -= 1
DecrementRetries(r) == r - 1

\* the exception the try block ends with for outcome o: the session's own,
\* or TwitchInternalServerError for a response with status 500
RaisedInTry(o) ==
    IF o.exc # NoException THEN o.exc
    ELSE IF o.status = 500 THEN "TwitchInternalServerError"
    ELSE NoException

\* except (ConnectionError, ReadTimeout, TwitchInternalServerError) as e
IsCaught(e) == e \in TransportExceptions \cup {"TwitchInternalServerError"}

\* the exception raised when retries == 0
ExhaustedError(e) ==
    IF e = "TwitchInternalServerError" THEN [type |-> "TwitchInternalServerError", json |-> NoJson]
    ELSE IF e = "ConnectionError" THEN [type |-> "NetworkConnectionError", json |-> NoJson]
    ELSE [type |-> e, json |-> NoJson]

\* the table without its entry for 401
http_errors_No401 ==
    (400 :> "BadRequestError") @@
    (403 :> "ForbiddenError") @@ (429 :> "TooManyRequestsError")

\* the module-level table http_errors
http_errors ==
    (400 :> "BadRequestError") @@ (401 :> "UnAuthorizedError") @@
    (403 :> "ForbiddenError") @@ (429 :> "TooManyRequestsError")

\* cls(error_msg) for a subclass of HTTPStatusError: the instance keeps
\* error_msg; ForbiddenError.__init__ calls super(ForbiddenError).__init__(message),
\* which raises TypeError before any instance exists; HTTPStatusError.__init__
\* prints the instance, and __str__ reads error_msg["status"], which raises
\* KeyError for a body without that key
NewHTTPStatusError(cls, error_msg) ==
    IF cls = "ForbiddenError" THEN [type |-> "TypeError", json |-> NoJson]
    ELSE IF ~HasStatusKey(error_msg) THEN [type |-> "KeyError", json |-> NoJson]
    ELSE [type |-> cls, json |-> error_msg]

\* the exception of response.json() for a body that is not JSON
JsonError == [type |-> "JSONDecodeError", json |-> NoJson]

\* return response.json()
ReturnJson(r) == [tag |-> "json", code |-> 0, json |-> r.json]

\* the 204 branch returning response.json() like the 200 branch
ReturnStatusCode_AsJson(r) == [tag |-> "json", code |-> 0, json |-> r.json]

\* return response.status_code
ReturnStatusCode(r) == [tag |-> "status_code", code |-> r.status_code, json |-> NoJson]

\* falling off the end of the function returns None
ReturnNone == [tag |-> "None", code |-> 0, json |-> NoJson]

---------------------------------------------------------------------------
(* The capability gate of twitch_request *)

\* Twitch.AUTH_OBJECTS: the classes a client accepts as auth
AuthClasses == {"ClientCredentials", "AuthorizationCodeFlow", "OIDCAuthorizationCodeFlow"}

\* isinstance(a, cls): the three credential classes are unrelated, none a
\* subclass of another
IsInstance(a, cls) == a = cls

\* the keyword arguments jwt_required, oauth_token_required,
\* app_access_token_required, app_or_oauth_token_required of a call
FlagSets ==
    [jwt_required : BOOLEAN, oauth_token_required : BOOLEAN,
     app_access_token_required : BOOLEAN, app_or_oauth_token_required : BOOLEAN]

\* the defaults of the four keyword arguments
NoFlags ==
    [jwt_required |-> FALSE, oauth_token_required |-> FALSE,
     app_access_token_required |-> FALSE, app_or_oauth_token_required |-> FALSE]

\* assert any([oauth_token_required, app_access_token_required,
\*             app_or_oauth_token_required])
AssertHolds(f) ==
    f.oauth_token_required \/ f.app_access_token_required \/ f.app_or_oauth_token_required

\* if app_access_token_required: if not isinstance(self.auth, ClientCredentials): raise
AppCheckRaises(a, f) ==
    f.app_access_token_required /\ ~IsInstance(a, "ClientCredentials")

\* the check of oauth_token_required left out
OAuthCheckRaises_Skipped(a, f) == FALSE

\* if oauth_token_required: if not isinstance(self.auth, AuthorizationCodeFlow): raise
OAuthCheckRaises(a, f) ==
    f.oauth_token_required /\ ~IsInstance(a, "AuthorizationCodeFlow")

\* the check of app_or_oauth_token_required accepting every credential
AppOrOAuthCheckRaises_Never(a, f) == FALSE

\* if app_or_oauth_token_required: if neither class: raise
AppOrOAuthCheckRaises(a, f) ==
    /\ f.app_or_oauth_token_required
    /\ ~IsInstance(a, "ClientCredentials") /\ ~IsInstance(a, "AuthorizationCodeFlow")

\* if jwt_required: if not isinstance(self.auth, OIDCAuthorizationCodeFlow): raise
JwtCheckRaises(a, f) ==
    f.jwt_required /\ ~IsInstance(a, "OIDCAuthorizationCodeFlow")

\* the exception lines 84-125 end with for credential a and flags f
GateError(a, f) ==
    IF ~AssertHolds(f) THEN "AssertionError"
    ELSE IF AppCheckRaises(a, f) \/ OAuthCheckRaises(a, f)
            \/ AppOrOAuthCheckRaises(a, f) \/ JwtCheckRaises(a, f)
         THEN "TwitchAuthException"
    ELSE NoException

---------------------------------------------------------------------------
(* The url built by twitch_request *)

\* names and values of the keyword arguments collected in **query_parameters
ParamKeys == {"after", "first", "id"}
ParamElements == {"a", "b"}

\* a value is None, a scalar or a list; items holds the scalar or the elements
NoneValue == [kind |-> "None", items |-> <<>>]
ScalarValues == {[kind |-> "scalar", items |-> <<x>>] : x \in ParamElements}
ListValues ==
    {[kind |-> "list", items |-> l] :
        l \in UNION {[1 .. n -> ParamElements] : n \in 0 .. MaxListLen}}
ParamValues == {NoneValue} \cup ScalarValues \cup ListValues

\* the orders in which a caller can pass distinct keyword arguments
KeyOrders ==
    UNION {{ks \in [1 .. n -> ParamKeys] :
                \A i, j \in 1 .. n : i # j => ks[i] # ks[j]} :
           n \in 0 .. Cardinality(ParamKeys)}

\* the dict **query_parameters with keys ks and values vs, as a sequence in
\* insertion order
QueryParameters(ks, vs) ==
    [i \in 1 .. Len(ks) |-> [key |-> ks[i], kind |-> vs[i].kind, items |-> vs[i].items]]

\* a (key, value) tuple of build_url
Pair(k, x) == [key |-> k, value |-> x]

\* isinstance(v, list)
IsList(e) == e.kind = "list"
IsNotList(e) == ~IsList(e)

\* fragments: (k, element) for every element of every list value, the list
\* entries being popped from query_parameters
RECURSIVE Fragments(_)
Fragments(q) ==
    IF q = <<>> THEN <<>>
    ELSE (IF IsList(Head(q))
          THEN [i \in 1 .. Len(Head(q).items) |-> Pair(Head(q).key, Head(q).items[i])]
          ELSE <<>>) \o Fragments(Tail(q))

\* query_parameters after the pops
AfterPops(q) == SelectSeq(q, IsNotList)

\* the filter dropped: every remaining entry gives a pair
ValueIsNotNone_Always(e) == TRUE

\* if value is not None
ValueIsNotNone(e) == e.kind # "None"

\* [(key, value) for key, value in query_parameters.items() if value is not None]
RECURSIVE ScalarPairs(_)
ScalarPairs(q) ==
    IF q = <<>> THEN <<>>
    ELSE (IF ValueIsNotNone(Head(q))
          THEN <<Pair(Head(q).key,
                      IF Head(q).kind = "None" THEN "None" ELSE Head(q).items[1])>>
          ELSE <<>>) \o ScalarPairs(Tail(q))

\* the fragments put in front of the scalar pairs
BuildPairs_FragmentsFirst(q) == Fragments(q) \o ScalarPairs(AfterPops(q))

\* build_url = [...]; build_url += fragments
BuildPairs(q) == ScalarPairs(AfterPops(q)) \o Fragments(q)

\* no url built yet
NoUrl == [built |-> FALSE, pairs |-> <<>>]

\* add_params_to_uri(self.TWITCH_API_BASE_URL + endpoint, params): the base
\* url and endpoint carry no query, so the query of the result is params
AddParamsToUri(params) == [built |-> TRUE, pairs |-> params]

\* lines 130-144: the url of the call
BuildUrl(q) ==
    IF q # <<>> THEN AddParamsToUri(BuildPairs(q))
    ELSE [built |-> TRUE, pairs |-> <<>>]

---------------------------------------------------------------------------
(* The token manager ClientCredentials *)

\* self.next_validate_token_time = time.time() + 3600
ValidateWindow == 3600

\* time.time() when the manager is constructed
StartTime == 1

\* seconds that pass between two operations
TickSteps == {1800, 1801}

\* values of the "expires_at" key of a token
ExpiryTimes == {3000, 9000}

\* Python values an access token or the content of the file can be: None, a
\* dict with or without the "expires_at" key, or a value that is no dict
NoneToken == [type |-> "None", has_expires_at |-> FALSE, expires_at |-> 0]
TokenDicts ==
    {[type |-> "dict", has_expires_at |-> TRUE, expires_at |-> t] : t \in ExpiryTimes}
    \cup {[type |-> "dict", has_expires_at |-> FALSE, expires_at |-> 0]}
NotADict == [type |-> "str", has_expires_at |-> FALSE, expires_at |-> 0]

\* isinstance(v, dict)
IsDict(v) == v.type = "dict"

\* the file .client_credentials.pickle: absent, of zero bytes, bytes that are
\* no pickle, or the pickle of a value
FileAbsent == [state |-> "absent", data |-> NoneToken]
FileEmpty == [state |-> "empty", data |-> NoneToken]
FileGarbage == [state |-> "garbage", data |-> NoneToken]
Pickled(v) == [state |-> "pickle", data |-> v]
CacheStates ==
    {FileAbsent, FileEmpty, FileGarbage}
    \cup {Pickled(v) : v \in TokenDicts \cup {NotADict}}

\* the methods class ClientCredentials defines
Methods ==
    {"__init__", "_parse_scope_for_errors", "__call__", "_generate_twitch_token_url",
     "get_access_token", "set_access_token", "is_token_validated", "is_token_expired",
     "save_access_token", "read_access_token_from_file"}

\* self.<name> of a name the class does not define raises AttributeError
Lookup(name) == IF name \in Methods THEN NoException ELSE "AttributeError"

\* how an operation ended: its argument, the exception raised out of it, the
\* value returned, and whether it sent a request to the validate endpoint
NoOp ==
    [name |-> "none", arg |-> "none", raised |-> NoException, value |-> "None",
     sent |-> FALSE]
Returned(n, v, s) ==
    [name |-> n, arg |-> "none", raised |-> NoException, value |-> v, sent |-> s]
Raised(n, e, s) ==
    [name |-> n, arg |-> "none", raised |-> e, value |-> "None", sent |-> s]

\* the manager as ClientCredentials.__init__ leaves it
NewManager ==
    /\ access_token = NoneToken
    /\ next_validate_token_time = 0
    /\ now = StartTime
    /\ op = NoOp
    /\ session_token = NoneToken

\* entries of the history made by the token manager: __call__ entered by one
\* of the callers that share the manager, and a GET sent to the validate
\* endpoint with its outcome
Callers == {1, 2}
EnsureEvent(c) == [ev |-> "ensure", caller |-> c]
ValidateEvent(t, o) == [ev |-> "validate", at |-> t, exc |-> o.exc, status |-> o.status]
IsEnsure(e) == e.ev = "ensure"
IsValidate(e) == e.ev = "validate"
Validations == SelectSeq(trace, IsValidate)

\* what the remote token endpoint does with a request: it answers with a
\* token, cannot be reached, or answers with a status that is not 2xx
TokenEndpointStates == {"up", "unreachable", "rejects"}

\* outcomes of self.session.get(twitch_validate_token_url)
ValidateOutcomes ==
    {[exc |-> NoException, status |-> s] : s \in {200, 401, 500}}
    \cup {[exc |-> "ConnectionError", status |-> 0]}

\* the throttle test removed: every call validates
ShouldValidate_Always(t, next) == TRUE

\* if time.time() > self.next_validate_token_time
ShouldValidate(t, next) == t > next

\* every status other than 200 handled like 401
NextValidateTime_ResetUnless200(s, t, next) ==
    IF s = 200 THEN t + ValidateWindow ELSE 0

\* next_validate_token_time after a response with status s received at t
NextValidateTime(s, t, next) ==
    IF s = 200 THEN t + ValidateWindow
    ELSE IF s = 401 THEN 0
    ELSE next

\* the value is_token_validated returns after a response with status s
ValidatedValue(s) ==
    IF s = 200 THEN "True" ELSE IF s = 401 THEN "False" ELSE "None"

\* the exception get_access_token(check_cache) raises: line 141 evaluates
\* self.read_access_token when check_cache is true, line 150
\* self._generate_token_url otherwise
GetAccessTokenError(check_cache) ==
    IF check_cache THEN Lookup("read_access_token") ELSE Lookup("_generate_token_url")

\* the exception __call__ raises: get_access_token() when no token is held,
\* then self.token_is_validated
AuthCallError(tok) ==
    IF tok = NoneToken /\ GetAccessTokenError(TRUE) # NoException
    THEN GetAccessTokenError(TRUE)
    ELSE Lookup("token_is_validated")

\* is_token_expired: self.access_token["expires_at"] of None or of a dict
\* without the key raises
IsTokenExpiredError(tok) ==
    IF tok.type = "None" THEN "TypeError"
    ELSE IF ~tok.has_expires_at THEN "KeyError"
    ELSE NoException

\* time.time() > self.access_token["expires_at"]
IsExpired(tok, t) == t > tok.expires_at

\* pickle.load of the file's content
ReadError(c) ==
    IF c.state = "empty" THEN "EOFError"
    ELSE IF c.state = "garbage" THEN "UnpicklingError"
    ELSE NoException

---------------------------------------------------------------------------
(* The state machine *)

\* no endpoint method called
NoMethod == "none"

\* no call made yet
NoCall ==
    /\ pc = "idle"
    /\ retries = 0
    /\ delay_exp = 1
    /\ response = NoResponse
    /\ result = NoResult
    /\ error = NoError
    /\ trace = <<>>
    /\ flags = NoFlags
    /\ query_parameters = <<>>
    /\ url = NoUrl
    /\ method = NoMethod

\* a client built on a ClientCredentials object, before its call
Init ==
    /\ max_retries \in MaxRetriesValues
    /\ auth = "ClientCredentials"
    /\ NoCall
    /\ NewManager
    /\ cache = FileAbsent
    /\ token_endpoint = "up"
    /\ twitch_scope = {}

\* the while test with retries = r: the next iteration starts, or the loop
\* ends and the function returns None
WhileTest(r) ==
    IF LoopCondition(r)
    THEN pc' = "attempt" /\ UNCHANGED result
    ELSE pc' = "returned" /\ result' = ReturnNone

\* twitch_request is entered with flags f and query parameters q: the assert
\* and the gate raise, or the url is built, retries = self.max_retries,
\* delay_seconds = 1.2 and the loop is reached
TwitchRequest(f, q) ==
    /\ pc = "idle"
    /\ flags' = f
    /\ query_parameters' = q
    /\ IF GateError(auth, f) # NoException
       THEN /\ pc' = "raised"
            /\ error' = [type |-> GateError(auth, f), json |-> NoJson]
            /\ UNCHANGED <<retries, delay_exp, result, url>>
       ELSE /\ url' = BuildUrl(q)
            /\ retries' = max_retries
            /\ delay_exp' = 1
            /\ WhileTest(max_retries)
            /\ UNCHANGED error
    /\ UNCHANGED <<max_retries, auth, twitch_scope, response, trace>>
    /\ UNCHANGED token_vars

\* twitch_request called directly, through no endpoint method
Call(f, q) == TwitchRequest(f, q) /\ UNCHANGED method

\* one more request may be sent
CanSend == pc = "attempt" /\ Len(Requests) < MaxRequests

\* an iteration whose session.request raises an exception that the except
\* clause does not name: it leaves the function
SessionRaises(o) ==
    /\ CanSend
    /\ o \in ExceptionOutcomes
    /\ ~IsCaught(RaisedInTry(o))
    /\ trace' = trace \o AttemptEvents(o)
    /\ pc' = "raised"
    /\ error' = [type |-> o.exc, json |-> NoJson]
    /\ UNCHANGED <<max_retries, retries, delay_exp, response, result>>
    /\ UNCHANGED call_vars
    /\ UNCHANGED token_vars

\* an iteration that ends in the except clause
ExceptClause(o) ==
    /\ CanSend
    /\ o \in ExceptionOutcomes \cup ResponseOutcomes
    /\ IsCaught(RaisedInTry(o))
    /\ response' = IF o.exc = NoException
                   THEN [status_code |-> o.status, json |-> o.json]
                   ELSE response
    /\ IF CanRetry(retries)
       THEN \E j \in JitterSamples :
              /\ trace' = trace \o AttemptEvents(o)
                                  \o <<SleepEvent(ApplyExponentialBackoff(delay_exp, j))>>
              /\ delay_exp' = SquareDelay(delay_exp)
              /\ retries' = DecrementRetries(retries)
              /\ WhileTest(DecrementRetries(retries))
              /\ UNCHANGED error
       ELSE IF retries = 0
       THEN /\ trace' = trace \o AttemptEvents(o)
            /\ pc' = "raised"
            /\ error' = ExhaustedError(RaisedInTry(o))
            /\ UNCHANGED <<retries, delay_exp, result>>
       ELSE /\ trace' = trace \o AttemptEvents(o)
            /\ WhileTest(retries)
            /\ UNCHANGED <<retries, delay_exp, error>>
    /\ UNCHANGED max_retries
    /\ UNCHANGED call_vars
    /\ UNCHANGED token_vars

\* an iteration that ends in the else clause of the try statement
ElseClause(o) ==
    /\ CanSend
    /\ o \in AnyBodyOutcomes
    /\ RaisedInTry(o) = NoException
    /\ trace' = trace \o AttemptEvents(o)
    /\ response' = [status_code |-> o.status, json |-> o.json]
    /\ IF o.status = 200
       THEN IF JsonDecodes(o.json)
            THEN pc' = "returned" /\ result' = ReturnJson(response') /\ UNCHANGED error
            ELSE pc' = "raised" /\ error' = JsonError /\ UNCHANGED result
       ELSE IF o.status = 204
       THEN pc' = "returned" /\ result' = ReturnStatusCode(response') /\ UNCHANGED error
       ELSE IF o.status \in DOMAIN http_errors
       THEN /\ pc' = "raised"
            /\ error' = IF JsonDecodes(o.json)
                         THEN NewHTTPStatusError(http_errors[o.status], o.json)
                         ELSE JsonError
            /\ UNCHANGED result
       ELSE WhileTest(retries) /\ UNCHANGED error
    /\ UNCHANGED <<max_retries, retries, delay_exp>>
    /\ UNCHANGED call_vars
    /\ UNCHANGED token_vars

\* the call the retry loop is followed for: an endpoint open to app and user
\* tokens, without query parameters
PlainFlags == [NoFlags EXCEPT !.app_or_oauth_token_required = TRUE]

Next ==
    \/ Call(PlainFlags, <<>>)
    \/ \E o \in ExceptionOutcomes : SessionRaises(o)
    \/ \E o \in ExceptionOutcomes \cup ResponseOutcomes : ExceptClause(o)
    \/ \E o \in ResponseOutcomes : ElseClause(o)

Spec == Init /\ [][Next]_vars

\* the retry loop, whatever the outcome of each request
Loop ==
    \/ \E o \in ExceptionOutcomes : SessionRaises(o)
    \/ \E o \in ExceptionOutcomes \cup ResponseOutcomes : ExceptClause(o)
    \/ \E o \in ResponseOutcomes : ElseClause(o)

\* the classification of error responses: responses with any body
InitError ==
    /\ max_retries \in 0 .. 1
    /\ auth = "ClientCredentials"
    /\ NoCall
    /\ NewManager
    /\ cache = FileAbsent
    /\ token_endpoint = "up"
    /\ twitch_scope = {}

NextError ==
    \/ Call(PlainFlags, <<>>)
    \/ \E o \in ExceptionOutcomes : SessionRaises(o)
    \/ \E o \in ExceptionOutcomes \cup ResponseOutcomes : ExceptClause(o)
    \/ \E o \in AnyBodyOutcomes : ElseClause(o)

SpecError == InitError /\ [][NextError]_vars

\* the gate: a client on any of the three credential classes, a call with
\* any combination of the four flags
InitGate ==
    /\ max_retries \in -1 .. 0
    /\ auth \in AuthClasses
    /\ NoCall
    /\ NewManager
    /\ cache = FileAbsent
    /\ token_endpoint = "up"
    /\ twitch_scope = {}

NextGate ==
    \/ \E f \in FlagSets : Call(f, <<>>)
    \/ Loop

SpecGate == InitGate /\ [][NextGate]_vars

\* the url: a call with any query parameters
InitUrl ==
    /\ max_retries = MaxRetries
    /\ auth = "ClientCredentials"
    /\ NoCall
    /\ NewManager
    /\ cache = FileAbsent
    /\ token_endpoint = "up"
    /\ twitch_scope = {}

NextUrl ==
    /\ pc = "idle"
    /\ \E ks \in KeyOrders :
          \E vs \in [1 .. Len(ks) -> ParamValues] :
              Call(PlainFlags, QueryParameters(ks, vs))

SpecUrl == InitUrl /\ [][NextUrl]_vars

\* scope names, and the sets of scopes a client can have been granted
Scopes == {"bits:read", "channel:read:editors", "channel:manage:redemptions"}
GrantedScopeSets == SUBSET Scopes

\* endpoint methods of the client
EndpointMethods == {"get_bits_leaderboard", "get_channel_editors", "delete_custom_reward"}

\* required_scope = "..." of an endpoint method
RequiredScope(m) ==
    CASE m = "get_bits_leaderboard" -> "bits:read"
      [] m = "get_channel_editors" -> "channel:read:editors"
      [] m = "delete_custom_reward" -> "channel:manage:redemptions"

\* if required_scope not in self.twitch_scope: raise ScopeError; in
\* delete_custom_reward the test reads required_scope not in required_scope,
\* and a string is always found in itself
ScopeCheckRaises(m, granted) ==
    IF m = "delete_custom_reward" THEN FALSE
    ELSE RequiredScope(m) \notin granted

\* the requirement flags an endpoint method passes to twitch_request
MethodFlags(m) ==
    CASE m = "get_bits_leaderboard" -> [NoFlags EXCEPT !.oauth_token_required = TRUE]
      [] m = "get_channel_editors" -> [NoFlags EXCEPT !.app_or_oauth_token_required = TRUE]
      [] m = "delete_custom_reward" -> [NoFlags EXCEPT !.oauth_token_required = TRUE]

\* the query parameters an endpoint method passes: broadcaster_id in
\* get_channel_editors, four parameters that default to None in
\* get_bits_leaderboard, broadcaster_id and id in delete_custom_reward
MethodQuery(m) ==
    CASE m = "get_channel_editors" ->
           <<[key |-> "broadcaster_id", kind |-> "scalar", items |-> <<"a">>]>>
      [] m = "get_bits_leaderboard" ->
           [i \in 1 .. 4 |->
              [key |-> <<"count", "period", "started_at", "user_id">>[i],
               kind |-> "None", items |-> <<>>]]
      [] m = "delete_custom_reward" ->
           <<[key |-> "broadcaster_id", kind |-> "scalar", items |-> <<"a">>],
             [key |-> "id", kind |-> "scalar", items |-> <<"b">>]>>

\* an endpoint method is called: ScopeError, or twitch_request is entered
EndpointCall(m) ==
    /\ pc = "idle"
    /\ method' = m
    /\ IF ScopeCheckRaises(m, twitch_scope)
       THEN /\ pc' = "raised"
            /\ error' = [type |-> "ScopeError", json |-> NoJson]
            /\ UNCHANGED <<max_retries, retries, delay_exp, response, result, trace,
                           auth, flags, query_parameters, url, twitch_scope>>
            /\ UNCHANGED token_vars
       ELSE TwitchRequest(MethodFlags(m), MethodQuery(m))

\* the endpoint methods: a client granted any set of scopes, one method call
InitScope ==
    /\ max_retries = 0
    /\ auth \in {"ClientCredentials", "AuthorizationCodeFlow"}
    /\ NoCall
    /\ NewManager
    /\ cache = FileAbsent
    /\ token_endpoint = "up"
    /\ twitch_scope \in GrantedScopeSets

NextScope ==
    \/ \E m \in EndpointMethods : EndpointCall(m)
    \/ Loop

SpecScope == InitScope /\ [][NextScope]_vars

\* the operations on the token manager leave the client and its call alone
client_vars ==
    <<max_retries, pc, retries, delay_exp, response, result, error,
      auth, flags, query_parameters, url, twitch_scope, method>>

\* one more call or validation request is followed
CanLog == Len(trace) < MaxTokenEvents

\* __call__() by caller c: raises at its first lookup of a method the class
\* lacks, before anything of the manager is read or written
AuthCall(c) ==
    /\ CanLog
    /\ trace' = Append(trace, EnsureEvent(c))
    /\ AuthCallError(access_token) # NoException
    /\ op' = Raised("__call__", AuthCallError(access_token), FALSE)
    /\ UNCHANGED <<access_token, cache, next_validate_token_time, now>>
    /\ UNCHANGED <<session_token, token_endpoint>>
    /\ UNCHANGED client_vars

\* get_access_token(check_cache) forgetting the held token and removing the
\* file before it raises
GetAccessToken_Resets(check_cache) ==
    /\ GetAccessTokenError(check_cache) # NoException
    /\ op' = [Raised("get_access_token", GetAccessTokenError(check_cache), FALSE)
                 EXCEPT !.arg = IF check_cache THEN "True" ELSE "False"]
    /\ access_token' = NoneToken
    /\ cache' = FileAbsent
    /\ UNCHANGED <<next_validate_token_time, now, trace>>
    /\ UNCHANGED <<session_token, token_endpoint>>
    /\ UNCHANGED client_vars

\* get_access_token(check_cache): raises before it reads the file or asks
\* the token endpoint
GetAccessToken(check_cache) ==
    /\ GetAccessTokenError(check_cache) # NoException
    /\ op' = [Raised("get_access_token", GetAccessTokenError(check_cache), FALSE)
                 EXCEPT !.arg = IF check_cache THEN "True" ELSE "False"]
    /\ UNCHANGED <<access_token, cache, next_validate_token_time, now, trace>>
    /\ UNCHANGED <<session_token, token_endpoint>>
    /\ UNCHANGED client_vars

\* set_access_token(v): the assert, then self.access_token = v
SetAccessToken(v) ==
    /\ IF IsDict(v)
       THEN /\ access_token' = v
            /\ op' = Returned("set_access_token", "None", FALSE)
       ELSE /\ op' = Raised("set_access_token", "AssertionError", FALSE)
            /\ UNCHANGED access_token
    /\ UNCHANGED <<cache, next_validate_token_time, now, trace>>
    /\ UNCHANGED <<session_token, token_endpoint>>
    /\ UNCHANGED client_vars

\* is_token_validated(): a GET to the validate endpoint with outcome o when
\* the window has passed; True otherwise
IsTokenValidated(o) ==
    /\ IF ShouldValidate(now, next_validate_token_time)
       THEN /\ CanLog
            /\ trace' = Append(trace, ValidateEvent(now, o))
            /\ IF o.exc # NoException
               THEN /\ op' = Raised("is_token_validated", o.exc, TRUE)
                    /\ UNCHANGED next_validate_token_time
               ELSE /\ op' = Returned("is_token_validated", ValidatedValue(o.status), TRUE)
                    /\ next_validate_token_time' =
                          NextValidateTime(o.status, now, next_validate_token_time)
       ELSE /\ op' = Returned("is_token_validated", "True", FALSE)
            /\ UNCHANGED <<trace, next_validate_token_time>>
    /\ UNCHANGED <<access_token, cache, now>>
    /\ UNCHANGED <<session_token, token_endpoint>>
    /\ UNCHANGED client_vars

\* is_token_expired()
IsTokenExpired ==
    /\ op' = IF IsTokenExpiredError(access_token) # NoException
             THEN Raised("is_token_expired", IsTokenExpiredError(access_token), FALSE)
             ELSE Returned("is_token_expired",
                           IF IsExpired(access_token, now) THEN "True" ELSE "False", FALSE)
    /\ UNCHANGED <<access_token, cache, next_validate_token_time, now, trace>>
    /\ UNCHANGED <<session_token, token_endpoint>>
    /\ UNCHANGED client_vars

\* save_access_token(): returns when no token is held; otherwise open(.., "wb")
\* empties the file and pickle.HIGHEST_PRIORITY raises before anything is
\* written
SaveAccessToken ==
    /\ IF access_token = NoneToken
       THEN /\ op' = Returned("save_access_token", "None", FALSE)
            /\ UNCHANGED cache
       ELSE /\ cache' = FileEmpty
            /\ op' = Raised("save_access_token", "AttributeError", FALSE)
    /\ UNCHANGED <<access_token, next_validate_token_time, now, trace>>
    /\ UNCHANGED <<session_token, token_endpoint>>
    /\ UNCHANGED client_vars

\* read_access_token_from_file(): None when the file is absent, the unpickled
\* value, or the exception of pickle.load
ReadAccessTokenFromFile ==
    /\ op' = IF ReadError(cache) # NoException
             THEN Raised("read_access_token_from_file", ReadError(cache), FALSE)
             ELSE Returned("read_access_token_from_file", cache.data.type, FALSE)
    /\ UNCHANGED <<access_token, cache, next_validate_token_time, now, trace>>
    /\ UNCHANGED <<session_token, token_endpoint>>
    /\ UNCHANGED client_vars

\* d seconds pass
Tick(d) ==
    /\ now + d <= MaxNow
    /\ now' = now + d
    /\ UNCHANGED <<access_token, cache, next_validate_token_time, op, trace>>
    /\ UNCHANGED <<session_token, token_endpoint>>
    /\ UNCHANGED client_vars

\* the token manager over time: a new ClientCredentials object, the calls
\* that ensure, validate and test the token, and the clock
InitToken ==
    /\ max_retries = MaxRetries
    /\ auth = "ClientCredentials"
    /\ NoCall
    /\ NewManager
    /\ cache = FileAbsent
    /\ token_endpoint = "up"
    /\ twitch_scope = {}

NextToken ==
    \/ \E c \in Callers : AuthCall(c)
    \/ \E v \in TokenDicts \cup {NotADict} : SetAccessToken(v)
    \/ \E o \in ValidateOutcomes : IsTokenValidated(o)
    \/ IsTokenExpired
    \/ \E d \in TickSteps : Tick(d)

SpecToken == InitToken /\ [][NextToken]_vars

\* the token manager and its file: a new ClientCredentials object, any
\* content of the file, and the operations that acquire, save and load
InitCache ==
    /\ max_retries = MaxRetries
    /\ auth = "ClientCredentials"
    /\ NoCall
    /\ NewManager
    /\ cache \in CacheStates
    /\ token_endpoint \in TokenEndpointStates
    /\ twitch_scope = {}

NextCache ==
    \/ \E check_cache \in BOOLEAN : GetAccessToken(check_cache)
    \/ \E v \in TokenDicts \cup {NotADict} : SetAccessToken(v)
    \/ SaveAccessToken
    \/ ReadAccessTokenFromFile

SpecCache == InitCache /\ [][NextCache]_vars

---------------------------------------------------------------------------
(* Vocabulary of the claims *)

NumRequests == Len(Requests)

IsTransportFailure(e) == e.exc \in TransportExceptions
IsStatus(e, s) == e.exc = NoException /\ e.status = s
IsRetryable(e) == IsTransportFailure(e) \/ IsStatus(e, 500)

\* every request sent so far ended in a transport failure
AllTransportFailures == \A i \in 1 .. NumRequests : IsTransportFailure(Requests[i])

\* every request sent so far received a 500 response
All500 == \A i \in 1 .. NumRequests : IsStatus(Requests[i], 500)

\* every request before the last one ended in a retryable failure
EarlierAllRetryable == \A i \in 1 .. NumRequests - 1 : IsRetryable(Requests[i])

Terminated == pc \in {"returned", "raised"}

\* the call runs on a client with max_retries >= 0
Running == pc # "idle" /\ max_retries >= 0

\* 1.2^i seconds <= t < 1.2^i + 1 seconds
InBackoffWindow(i, t) == PowerTicks(i) <= t /\ t < PowerTicks(i) + TicksPerSecond

---------------------------------------------------------------------------
(* Claims on the retry loop *)

\* C1: with max_retries = k >= 0 and a transport that fails on every attempt,
\* the call sends exactly k+1 requests and then raises: it has not ended
\* while fewer than k+1 were sent, and it has raised once k+1 were sent.
C1_ExactlyKPlusOneAttempts ==
    (Running /\ AllTransportFailures) =>
        /\ NumRequests <= max_retries + 1
        /\ (NumRequests < max_retries + 1 => pc = "attempt")
        /\ (NumRequests = max_retries + 1 => pc = "raised")

C1_Witness ==
    /\ max_retries = MaxRetries
    /\ pc = "raised"
    /\ NumRequests = MaxRetries + 1
    /\ AllTransportFailures
    /\ \E i, j \in 1 .. NumRequests :
          Requests[i].exc = "ConnectionError" /\ Requests[j].exc = "ReadTimeout"

\* C2 (as claimed): an attempt that ends in anything but a connection failure,
\* a read timeout or a 500 response is the last attempt of the call.
C2_OnlyRetryableIsRetried ==
    \A i \in 1 .. NumRequests :
        ~IsRetryable(Requests[i]) => (i = NumRequests /\ Terminated)

C4_UnmappedStatusRaises ==
    \A i \in 1 .. NumRequests :
        ( /\ Requests[i].exc = NoException
          /\ Requests[i].status \notin 200 .. 299
          /\ Requests[i].status \notin {400, 401, 403, 429, 500} ) =>
            (pc = "raised" /\ error.type = "TwitchInternalServerError")

\* C5 (as claimed): 400 raises BadRequestError, 401 UnAuthorizedError, 403
\* ForbiddenError and 429 TooManyRequestsError out of the call.
C5_StatusToError ==
    \A i \in 1 .. NumRequests :
        /\ IsStatus(Requests[i], 400) => (pc = "raised" /\ error.type = "BadRequestError")
        /\ IsStatus(Requests[i], 401) => (pc = "raised" /\ error.type = "UnAuthorizedError")
        /\ IsStatus(Requests[i], 403) => (pc = "raised" /\ error.type = "ForbiddenError")
        /\ IsStatus(Requests[i], 429) => (pc = "raised" /\ error.type = "TooManyRequestsError")

\* C6: with max_retries = k >= 0, after at most k retryable failures the call
\* is still about to send a request, and a 200 response that follows only
\* retryable failures is returned as its decoded payload.
C6_SuccessAfterRetries ==
    Running =>
        /\ ( /\ NumRequests <= max_retries
             /\ \A i \in 1 .. NumRequests : IsRetryable(Requests[i]) ) => pc = "attempt"
        /\ ( /\ NumRequests >= 1
             /\ IsStatus(Requests[NumRequests], 200)
             /\ EarlierAllRetryable ) =>
                /\ pc = "returned"
                /\ result = [tag |-> "json", code |-> 0, json |-> response.json]

C6_Witness ==
    /\ max_retries = 3
    /\ NumRequests = 4
    /\ \A i \in 1 .. 3 : Requests[i].exc = "ReadTimeout"
    /\ IsStatus(Requests[4], 200)
    /\ pc = "returned"
    /\ result.json = "j2"

\* C7 (as claimed): the delay slept before the i-th retry lies in
\* [1.2^i, 1.2^i + 1) seconds.
C7_DelayInWindow ==
    \A i \in 1 .. Len(Sleeps) : InBackoffWindow(i, Sleeps[i].ticks)

\* C8 (as claimed): when every attempt ends in a transport failure and the
\* budget is exhausted, the call raises NetworkConnectionError.
C8_NetworkErrorOnExhaustion ==
    (Running /\ AllTransportFailures /\ pc = "raised") =>
        error.type = "NetworkConnectionError"

\* C9: when every attempt receives a 500 response the call raises
\* TwitchInternalServerError after exactly max_retries + 1 attempts, and has
\* not ended before.
C9_Persistent500 ==
    (Running /\ All500) =>
        /\ NumRequests <= max_retries + 1
        /\ (NumRequests < max_retries + 1 => pc = "attempt")
        /\ (NumRequests = max_retries + 1 =>
                (pc = "raised" /\ error.type = "TwitchInternalServerError"))

C9_Witness ==
    /\ max_retries = MaxRetries
    /\ NumRequests = MaxRetries + 1
    /\ All500
    /\ pc = "raised"
    /\ error.type = "TwitchInternalServerError"

\* C10: a call that has ended returned the decoded payload exactly when its
\* last response had status 200, and returned the no-content signal (the
\* status code 204) exactly when its last response had status 204.
C10_ReturnValue ==
    Terminated =>
        LET last == IF NumRequests = 0 THEN 0 ELSE Requests[NumRequests].status
        IN  /\ (pc = "returned" /\ result.tag = "json") <=> last = 200
            /\ result.tag = "json" => result.json = response.json
            /\ (pc = "returned" /\ result.tag = "status_code") <=> last = 204
            /\ result.tag = "status_code" => result.code = 204

C10_Witness ==
    /\ pc = "returned"
    /\ NumRequests >= 2
    /\ IsStatus(Requests[NumRequests], 204)
    /\ result = [tag |-> "status_code", code |-> 204, json |-> NoJson]

\* the step sleeps a delay: the delay is the last entry it adds to the history
IsSleepStep == Len(trace') > Len(trace) /\ IsSleep(trace'[Len(trace')])

\* C33: in every step of a call that sleeps a delay, the delay slept is
\* delay_seconds = 1.2^delay_exp plus a jitter below one second; delay_seconds
\* is above one second at every sleep, the first included, it is greater
\* after the step than before it (1.2^e grows with e), and no step between
\* two sleeps changes it: the deterministic part of each delay is above that
\* of the one before.
C33_BackoffStrictlyGrows ==
    [][ IF IsSleepStep
        THEN /\ trace'[Len(trace')].ticks - PowerTicks(delay_exp)
                   \in 0 .. TicksPerSecond - 1
             /\ PowerTicks(delay_exp) > TicksPerSecond
             /\ delay_exp' > delay_exp
        ELSE pc = "attempt" => delay_exp' = delay_exp
      ]_vars

C33_Witness ==
    /\ Len(Sleeps) = 3
    /\ delay_exp = 8
    /\ Sleeps[1].ticks < Sleeps[2].ticks
    /\ Sleeps[3].ticks - PowerTicks(4) = JitterTicks(999)

\* C34 (as claimed): on a client with max_retries >= 0 a call sends at most
\* max_retries + 1 requests, whatever the outcome of each, and has returned
\* or raised once it has sent that many.
C34_EndsWithinBudget ==
    Running =>
        /\ NumRequests <= max_retries + 1
        /\ NumRequests = max_retries + 1 => Terminated

\* C35 (as claimed): on a client with any integer max_retries, a call that
\* has returned has sent at least one request, and its last request received
\* a 200 or a 204 response.
C35_ReturnsOnlyOnSuccess ==
    pc = "returned" =>
        /\ NumRequests >= 1
        /\ IsStatus(Requests[NumRequests], 200) \/ IsStatus(Requests[NumRequests], 204)

---------------------------------------------------------------------------
(* Claims on the classification of error responses, checked under SpecError *)

\* C32 (as claimed): a 400, 401, 403 or 429 response makes the call raise the
\* error of its status, and that error carries the status code of the
\* response and the message of the body when the body has one.  An
\* HTTPStatusError keeps the decoded body as error_msg and nothing else: the
\* status code it carries is the "status" entry of that body, the message
\* its "message" entry.
C32_ErrorCarriesStatusAndMessage ==
    \A i \in 1 .. NumRequests :
        (Requests[i].exc = NoException /\ Requests[i].status \in DOMAIN http_errors) =>
            /\ pc = "raised"
            /\ error.type = http_errors[Requests[i].status]
            /\ HasStatusKey(error.json)
            /\ HasMessageKey(response.json) => error.json = response.json

---------------------------------------------------------------------------
(* Claims on the capability gate, checked under SpecGate *)

\* the call ended in the assert or in the gate, before the url and the loop
GateRejected ==
    /\ pc = "raised"
    /\ error.type \in {"AssertionError", "TwitchAuthException"}

\* the call went past the gate
GatePassed == pc # "idle" /\ ~GateRejected

\* number of requirement flags the call sets
NumFlags ==
    Cardinality({n \in {"jwt_required", "oauth_token_required",
                        "app_access_token_required", "app_or_oauth_token_required"} :
                    flags[n]})

\* the credential holds the capability of every requirement the call declares
Satisfies ==
    /\ flags.app_access_token_required => auth = "ClientCredentials"
    /\ flags.oauth_token_required => auth = "AuthorizationCodeFlow"
    /\ flags.jwt_required => auth = "OIDCAuthorizationCodeFlow"
    /\ flags.app_or_oauth_token_required =>
          auth \in {"ClientCredentials", "AuthorizationCodeFlow"}

\* C11 (as claimed): a call whose declared requirement the credential does
\* not satisfy raises the authorization error TwitchAuthException, and no
\* request is sent and no delay slept in it.
C11_MismatchFailsBeforeNetwork ==
    (pc # "idle" /\ NumFlags >= 1 /\ ~Satisfies) =>
        /\ pc = "raised"
        /\ error.type = "TwitchAuthException"
        /\ trace = <<>>

\* C12: a call that went past the gate and requires an app access token runs
\* on a ClientCredentials client, one that requires an oauth token on an
\* AuthorizationCodeFlow client, one that requires a jwt on an
\* OIDCAuthorizationCodeFlow client.
C12_GateNeverPassesMismatch ==
    GatePassed =>
        /\ flags.app_access_token_required => auth = "ClientCredentials"
        /\ flags.oauth_token_required => auth = "AuthorizationCodeFlow"
        /\ flags.jwt_required => auth = "OIDCAuthorizationCodeFlow"

C12_Witness ==
    /\ flags.oauth_token_required
    /\ auth = "AuthorizationCodeFlow"
    /\ NumRequests >= 1

\* C13 (as claimed): a call that declares exactly one capability, on a client
\* holding the matching credential, goes past the gate.
C13_MatchingCredentialPasses ==
    (pc # "idle" /\ NumFlags = 1 /\ Satisfies) => GatePassed

\* C14 (as claimed): a call goes past the gate only when it sets exactly one
\* of the requirement flags.
C14_ExactlyOneRequirement == GatePassed => NumFlags = 1

\* C31: a call that declares the "either app or user" requirement (the flag
\* app_or_oauth_token_required and no other) goes past the gate on a
\* ClientCredentials client and on an AuthorizationCodeFlow client, and on an
\* OIDCAuthorizationCodeFlow client it raises TwitchAuthException with no
\* request sent and no delay slept.
C31_AppOrUserRequirement ==
    (pc # "idle" /\ flags = PlainFlags) =>
        IF auth \in {"ClientCredentials", "AuthorizationCodeFlow"}
        THEN GatePassed
        ELSE /\ pc = "raised"
             /\ error.type = "TwitchAuthException"
             /\ trace = <<>>

C31_Witness ==
    /\ flags = PlainFlags
    /\ auth = "OIDCAuthorizationCodeFlow"
    /\ pc = "raised"
    /\ error.type = "TwitchAuthException"
    /\ trace = <<>>

---------------------------------------------------------------------------
(* Claims on the url, checked under SpecUrl *)

\* the values of the pairs of the url that carry key k, in the url's order
RECURSIVE ValuesOf(_, _)
ValuesOf(pairs, k) ==
    IF pairs = <<>> THEN <<>>
    ELSE (IF Head(pairs).key = k THEN <<Head(pairs).value>> ELSE <<>>)
         \o ValuesOf(Tail(pairs), k)

\* the entry of query_parameters with key k, and its position
EntryOf(k) == CHOOSE i \in 1 .. Len(query_parameters) : query_parameters[i].key = k
KindOf(k) == query_parameters[EntryOf(k)].kind

\* C15: the url carries, for each parameter, no pair when its value is None,
\* one pair with the value when it is a scalar, and one pair per element, in
\* the list's order, when it is a list; it carries no other pair.
C15_PairsPerParameter ==
    url.built =>
        /\ \A i \in 1 .. Len(query_parameters) :
              ValuesOf(url.pairs, query_parameters[i].key) = query_parameters[i].items
        /\ \A j \in 1 .. Len(url.pairs) :
              \E i \in 1 .. Len(query_parameters) :
                  query_parameters[i].key = url.pairs[j].key

C15_Witness ==
    /\ url.built
    /\ Len(query_parameters) = 3
    /\ query_parameters[1].kind = "list" /\ Len(query_parameters[1].items) = 2
    /\ query_parameters[1].items[1] # query_parameters[1].items[2]
    /\ query_parameters[2].kind = "None"
    /\ query_parameters[3].kind = "scalar"
    /\ Len(url.pairs) = 3

\* C16: in the url every pair of a scalar parameter comes before every pair
\* of a list parameter, and the scalar pairs are in the caller's key order.
C16_ScalarsBeforeLists ==
    url.built =>
        \A i, j \in 1 .. Len(url.pairs) :
            i < j =>
                /\ ~(KindOf(url.pairs[i].key) = "list" /\ KindOf(url.pairs[j].key) = "scalar")
                /\ (KindOf(url.pairs[i].key) = "scalar" /\ KindOf(url.pairs[j].key) = "scalar")
                      => EntryOf(url.pairs[i].key) < EntryOf(url.pairs[j].key)

C16_Witness ==
    /\ url.built
    /\ Len(query_parameters) = 3
    /\ query_parameters[1].kind = "list" /\ Len(query_parameters[1].items) = 2
    /\ query_parameters[2].kind = "scalar"
    /\ query_parameters[3].kind = "scalar"
    /\ Len(url.pairs) = 4
    /\ url.pairs[1].key = query_parameters[2].key
    /\ url.pairs[2].key = query_parameters[3].key

---------------------------------------------------------------------------
(* Claims on the token manager *)

\* C17: once a validation request has been answered 200, no other validation
\* request is sent before ValidateWindow seconds have passed since that
\* answer.  Checked under SpecToken, over every order of __call__,
\* is_token_validated, set_access_token, is_token_expired and the clock.
C17_OneValidationPerWindow ==
    \A i, j \in 1 .. Len(Validations) :
        (i < j /\ Validations[i].exc = NoException /\ Validations[i].status = 200) =>
            Validations[j].at - Validations[i].at >= ValidateWindow

\* a validation was answered 200, __call__ was invoked after it, and
\* is_token_validated called at the very end of the window returned True
\* without sending a request
C17_Witness ==
    /\ Len(Validations) = 1
    /\ Validations[1].status = 200
    /\ IsEnsure(trace[Len(trace)])
    /\ now = Validations[1].at + ValidateWindow
    /\ op = Returned("is_token_validated", "True", FALSE)

\* C18 (as claimed): every request twitch_request sends is preceded, in the
\* same call, by the token manager's __call__.  Checked under Spec.
C18_EnsureBeforeEveryRequest ==
    \A i \in 1 .. Len(trace) :
        IsRequest(trace[i]) => \E j \in 1 .. i - 1 : IsEnsure(trace[j])

\* the file holds a record that fails validation: no pickle, no dict, or a
\* dict without expires_at
MalformedCache ==
    \/ cache.state \in {"empty", "garbage"}
    \/ cache.state = "pickle" /\ (~IsDict(cache.data) \/ ~cache.data.has_expires_at)

\* C19 (as claimed): get_access_token() on a file that holds a malformed
\* record returns without an exception and does not adopt the record as the
\* held token.  Checked under SpecCache.
C19_MalformedCacheIsAMiss ==
    (op.name = "get_access_token" /\ op.arg = "True" /\ MalformedCache) =>
        /\ op.raised = NoException
        /\ access_token # cache.data

\* a POST to the token endpoint (self.session.fetch_token) in the history
IsFetchToken(e) == e.ev = "fetch_token"
TokenRequests == SelectSeq(trace, IsFetchToken)

\* C21 (as claimed): once the persist step has run on an acquired token, the
\* store holds exactly that token, so that a load performed next returns it.
\* Checked under SpecCache.
C21_StoreHoldsAcquiredToken ==
    (op.name = "save_access_token" /\ access_token # NoneToken) =>
        /\ ReadError(cache) = NoException
        /\ cache = Pickled(access_token)

\* C22 (as claimed): an acquisition (get_access_token(check_cache=False))
\* made while the token endpoint is unreachable or rejecting ends in
\* AuthAcquisitionError, after exactly one request to the token endpoint.
\* Checked under SpecCache.
C22_AcquisitionFailureSurfaced ==
    (op.name = "get_access_token" /\ op.arg = "False" /\ token_endpoint # "up") =>
        /\ op.raised = "AuthAcquisitionError"
        /\ Len(TokenRequests) = 1

\* the instances of ClientCredentials in one process; the operations of the
\* model are called on "this" one
Instances == {"this", "other"}

\* the file an instance saves to and loads from: the same relative path,
\* whatever the credential
CacheFileOf(i) == ".client_credentials.pickle"

\* the content of the file at a path
FileContent(path) == IF path = ".client_credentials.pickle" THEN cache ELSE FileAbsent

\* C25 (as claimed): no operation on one instance changes what another
\* instance next loads from its cache.  Checked under SpecCache.
C25_InstancesDoNotShareCache ==
    [][\A j \in Instances \ {"this"} :
          FileContent(CacheFileOf(j))' = FileContent(CacheFileOf(j))]_vars

\* the held token is expired
HeldExpired ==
    /\ access_token # NoneToken
    /\ access_token.has_expires_at
    /\ IsExpired(access_token, now)

\* the step is a call of __call__: it adds an ensure entry to the history
IsAuthCallStep == Len(trace') = Len(trace) + 1 /\ IsEnsure(trace'[Len(trace) + 1])

\* C26 (as claimed): __call__ on a held token that is expired returns with a
\* token that is not expired, and sends no validation request in the call.
\* Checked under SpecToken.
C26_ExpiredRefreshedWithoutValidation ==
    [][(IsAuthCallStep /\ HeldExpired) =>
          /\ op'.raised = NoException
          /\ ~HeldExpired'
          /\ \A i \in Len(trace) + 1 .. Len(trace') : ~IsValidate(trace'[i])]_vars

\* the last validation request was answered 401
Invalidated ==
    /\ Validations # <<>>
    /\ Validations[Len(Validations)].exc = NoException
    /\ Validations[Len(Validations)].status = 401

\* C27 (as claimed): __call__ on a token whose last validation was answered
\* 401 returns with a token fetched from the token endpoint in that call.
\* Checked under SpecToken.
C27_InvalidTokenReacquired ==
    [][(IsAuthCallStep /\ Invalidated /\ access_token # NoneToken) =>
          /\ op'.raised = NoException
          /\ \E i \in Len(trace) + 1 .. Len(trace') : IsFetchToken(trace'[i])]_vars

\* the file holds a well-formed record
WellFormedCache ==
    cache.state = "pickle" /\ IsDict(cache.data) /\ cache.data.has_expires_at

\* C28 (as claimed): get_access_token() with no token held and a well-formed
\* record in the file adopts the record and sends no request to the token
\* endpoint.  Checked under SpecCache.
C28_WellFormedCacheAdopted ==
    [][(op'.name = "get_access_token" /\ op'.arg = "True"
          /\ access_token = NoneToken /\ WellFormedCache) =>
          /\ op'.raised = NoException
          /\ access_token' = cache.data
          /\ TokenRequests' = TokenRequests]_vars

\* C29 (as claimed): whenever an operation of the token manager has returned
\* or raised, the session carries exactly the held access token.  Checked
\* under SpecCache.
C29_SessionCarriesHeldToken ==
    op.name # "none" => session_token = access_token

\* C30 (as claimed): when both callers have run __call__ on a shared manager
\* that held no token, the token endpoint has been contacted exactly once.
\* Checked under SpecToken.
C30_SingleFlightAcquisition ==
    (access_token = NoneToken
       /\ \A c \in Callers : \E i \in 1 .. Len(trace) : trace[i] = EnsureEvent(c)) =>
        Len(TokenRequests) = 1

---------------------------------------------------------------------------
(* Claims on the connection of an attempt *)

IsOpen(e) == e.ev = "open"
IsClose(e) == e.ev = "close"

\* C23: every request runs on a connection opened for it by its attempt, and
\* that connection is closed right after the request, before anything else
\* happens: none is open while a delay is slept, when the next attempt
\* starts, or when the call has returned or raised.  Checked under Spec.
C23_ConnectionReleased ==
    \A i \in 1 .. Len(trace) :
        /\ IsOpen(trace[i]) => (i < Len(trace) /\ IsRequest(trace[i + 1]))
        /\ IsRequest(trace[i]) =>
              /\ i > 1 /\ IsOpen(trace[i - 1])
              /\ i < Len(trace) /\ IsClose(trace[i + 1])
        /\ IsClose(trace[i]) => (i > 1 /\ IsRequest(trace[i - 1]))

\* a call that raised after a transport failure, a delay and a 500
C23_Witness ==
    /\ pc = "raised"
    /\ NumRequests >= 2
    /\ IsTransportFailure(Requests[1])
    /\ IsStatus(Requests[NumRequests], 500)
    /\ Len(Sleeps) >= 1

---------------------------------------------------------------------------
(* Claims on the scope check of the endpoint methods *)

\* C24 (as claimed): an endpoint method whose required scope is not among
\* the granted scopes ends in ScopeError, and no request is sent.  Checked
\* under SpecScope.
C24_MissingScopeFailsBeforeDispatch ==
    (method # NoMethod /\ RequiredScope(method) \notin twitch_scope) =>
        /\ pc = "raised"
        /\ error.type = "ScopeError"
        /\ trace = <<>>

---------------------------------------------------------------------------
(* Claims on the places of the delays, checked under Spec *)

\* every delay of the history comes right after an attempt that ended in a
\* retryable failure, and the next attempt follows it
DelaysBetweenAttempts ==
    \A i \in 1 .. Len(trace) :
        IsSleep(trace[i]) =>
            /\ i >= 4
            /\ IsClose(trace[i - 1])
            /\ IsRequest(trace[i - 2]) /\ IsRetryable(trace[i - 2])
            /\ IF i < Len(trace) THEN IsOpen(trace[i + 1]) ELSE pc = "attempt"

\* C36 (as claimed): in a call on a client with max_retries >= 0, every delay
\* lies between a retryable failure and the next attempt, and a call that has
\* ended has slept one delay less than it has sent requests.
C36_DelaysOnlyBetweenAttempts ==
    Running =>
        /\ DelaysBetweenAttempts
        /\ Terminated => Len(Sleeps) = NumRequests - 1

---------------------------------------------------------------------------
(* Claims on failures inside the token manager *)

IsOtherStatus(e) == e.exc = NoException /\ e.status \notin {200, 401}

\* C38: a step in which is_token_validated receives a status that is neither
\* 200 nor 401 leaves the held token and next_validate_token_time as they
\* were and sends nothing to the token endpoint; and a __call__ made while
\* that answer is the last one received does not replace the held token nor
\* send anything to the token endpoint either.  Checked under SpecToken.
C38_OtherStatusChangesNothing ==
    [][ /\ ( /\ Len(Validations') = Len(Validations) + 1
             /\ IsOtherStatus(Validations'[Len(Validations')]) ) =>
                /\ access_token' = access_token
                /\ next_validate_token_time' = next_validate_token_time
                /\ TokenRequests' = TokenRequests
        /\ ( /\ IsAuthCallStep
             /\ Validations # <<>>
             /\ IsOtherStatus(Validations[Len(Validations)]) ) =>
                /\ access_token' = access_token
                /\ next_validate_token_time' = next_validate_token_time
                /\ TokenRequests' = TokenRequests
      ]_vars

\* a validation answered 200 set the deadline, the window passed, and the
\* next validation of the held token was answered 500
C38_Witness ==
    /\ Len(Validations) = 2
    /\ Validations[1].status = 200
    /\ IsOtherStatus(Validations[2])
    /\ op = Returned("is_token_validated", "None", TRUE)
    /\ access_token \in TokenDicts
    /\ next_validate_token_time = Validations[1].at + ValidateWindow

====
